---------------------------- MODULE Spec2Model ----------------------------
(***************************************************************************)
(* Model of cmd/mrtransform.cpp (MRtrix): the EXECUTE body that builds the *)
(* net 4x4 transform from the command-line options and then either         *)
(* reslices the input onto a template grid or copies it with a modified    *)
(* header transform.                                                       *)
(*                                                                         *)
(* Matrices are tuples of rows with integer entries; every entry used here *)
(* is a small integer, which a float holds exactly, so the arithmetic of   *)
(* Math::Matrix<float> is reproduced without rounding.                     *)
(***************************************************************************)
EXTENDS Integers, Sequences, FiniteSets, TLC

\* ------------------------------------------------------------- bounds
\* largest translation component of a supplied transform file
MaxShift == 0
\* largest value appearing in an -oversample vector
MaxOversample == 2

\* ------------------------------------------------ Math::Matrix<float>
\* Matrix::rows()
rows(M) == Len(M)

\* Matrix::columns()
columns(M) == IF Len(M) = 0 THEN 0 ELSE Len(M[1])

\* Matrix::is_set(): a default-constructed or cleared matrix is unset
is_set(M) == Len(M) > 0

\* Matrix::identity() on a 4x4 matrix
identity == << <<1, 0, 0, 0>>, <<0, 1, 0, 0>>, <<0, 0, 1, 0>>, <<0, 0, 0, 1>> >>

\* a cleared / never loaded matrix
Unset == << >>

\* Math::mult (C, A, B): C = A B, for 4x4 operands, entry by entry
mult_entry(A, B, i, j) ==
  A[i][1] * B[1][j] + A[i][2] * B[2][j] + A[i][3] * B[3][j] + A[i][4] * B[4][j]

mult_row(A, B, i) ==
  << mult_entry(A, B, i, 1), mult_entry(A, B, i, 2),
     mult_entry(A, B, i, 3), mult_entry(A, B, i, 4) >>

mult(A, B) ==
  << mult_row(A, B, 1), mult_row(A, B, 2), mult_row(A, B, 3), mult_row(A, B, 4) >>

\* the three indices of 1..4 other than k, in order
Others(k) == SelectSeq(<<1, 2, 3, 4>>, LAMBDA x : x # k)

\* determinant of the 3x3 matrix left when row i and column j are removed
Minor(A, i, j) ==
  LET r == Others(i)
      c == Others(j)
      e(p, q) == A[r[p]][c[q]]
  IN  e(1,1) * (e(2,2) * e(3,3) - e(2,3) * e(3,2))
    - e(1,2) * (e(2,1) * e(3,3) - e(2,3) * e(3,1))
    + e(1,3) * (e(2,1) * e(3,2) - e(2,2) * e(3,1))

Cofactor(A, i, j) == (IF (i + j) % 2 = 0 THEN 1 ELSE -1) * Minor(A, i, j)

Det(A) == A[1][1] * Cofactor(A, 1, 1) + A[1][2] * Cofactor(A, 1, 2)
        + A[1][3] * Cofactor(A, 1, 3) + A[1][4] * Cofactor(A, 1, 4)

\* n / d for d # 0 dividing n
ExactDiv(n, d) == IF d > 0 THEN n \div d ELSE (0 - n) \div (0 - d)

\* Math::LU::inv fails on a singular matrix
LU_singular(A) == Det(A) = 0

\* Math::LU::inv (I, A): I = A^-1 (adjugate over determinant; the transform
\* files of this model have determinant -1, 0 or 1, so the quotient is exact)
LU_inv(A) ==
  LET d == Det(A)
      e(i, j) == ExactDiv(Cofactor(A, j, i), d)
      r(i) == << e(i, 1), e(i, 2), e(i, 3), e(i, 4) >>
  IN  << r(1), r(2), r(3), r(4) >>

\* --------------------------------------------------------------- inputs
\* a 4x4 affine matrix from a 3x3 linear block and a translation
Affine(L, t) ==
  << L[1] \o <<t[1]>>, L[2] \o <<t[2]>>, L[3] \o <<t[3]>>, <<0, 0, 0, 1>> >>

\* linear blocks of the transform files: a quarter turn about z, a shear
\* with a z reflection, and a singular projection
Linears ==
  { << <<0, -1, 0>>, <<1, 0, 0>>, <<0, 0, 1>> >>,
    << <<1, 1, 0>>, <<0, 1, 0>>, <<0, 0, -1>> >>,
    << <<1, 0, 0>>, <<0, 0, 0>>, <<0, 0, 1>> >> }

\* what T.load can read from a file: 4x4 matrices, and files of another shape
TransformFiles ==
  { Affine(L, <<s, 1, 0 - s>>) : L \in Linears, s \in 0..MaxShift }
    \cup { << <<1, 0, 0, 0>>, <<0, 1, 0, 0>>, <<0, 0, 1, 0>> >>,
           << <<1, 0, 0>>, <<0, 1, 0>>, <<0, 0, 1>>, <<0, 0, 0>> >> }

\* an image on disk: header fields (one dim and vox per axis, three or more
\* axes) and voxel values
Image(n, d, v, M, dt, vals) ==
  [name |-> n, dim |-> d, vox |-> v, transform |-> M, datatype |-> dt,
   comments |-> << >>, data |-> vals]

InputImages ==
  { Image("in_a", <<2, 2, 1>>, <<2, 1, 1>>,
          Affine(<< <<1, 0, 0>>, <<0, 0, -1>>, <<0, 1, 0>> >>, <<3, 0, 1>>),
          "Float32", <<5, 6, 7, 8>>),
    Image("in_4d", <<3, 1, 1, 2>>, <<1, 2, 3, 9>>,
          Affine(<< <<1, 0, 0>>, <<0, 1, 0>>, <<0, 0, 1>> >>, <<0, 2, 0>>),
          "Float32", <<1, 2, 3, 4, 5, 6>>) }

ReferenceImages ==
  { Image("ref_a", <<4, 2, 2>>, <<3, 1, 1>>,
          Affine(<< <<0, 0, 1>>, <<1, 0, 0>>, <<0, 1, 0>> >>, <<1, 1, 0>>),
          "Float32", << >>),
    Image("ref_b", <<2, 3, 1>>, <<1, 1, 2>>,
          Affine(<< <<1, 0, 0>>, <<0, 1, 0>>, <<0, 0, 1>> >>, <<0, 0, 5>>),
          "Float32", << >>) }

TemplateImages ==
  { Image("template", <<5, 4, 3>>, <<4, 2, 1>>,
          Affine(<< <<0, 1, 0>>, <<-1, 0, 0>>, <<0, 0, 1>> >>, <<7, 0, 2>>),
          "Float32", << >>),
    Image("tmpl_4d", <<6, 2, 4, 7>>, <<1, 3, 2, 8>>,
          Affine(<< <<1, 0, 0>>, <<0, 0, 1>>, <<0, -1, 0>> >>, <<0, 4, 1>>),
          "Float32", << >>) }

\* DataType::identifiers offered to -datatype
DataTypes == { "Int16" }

\* what parse_ints returns for the -oversample argument: vectors of 2, 3
\* and 4 integers, with values from -1 upwards
OversampleVectors ==
  { <<a, 1, 1>> : a \in 0..MaxOversample }
    \cup { <<MaxOversample, 1, a>> : a \in 0..MaxOversample }
    \cup { <<1, 1>>, <<1, 1, 1, 1>>, <<1, 0 - 1, 1>> }

\* an option given at most once: get_options returns a vector of size 0 or 1
Opt(S) == { << >> } \cup { <<x>> : x \in S }

\* the command line: argument[0] and every option of OPTIONS
CommandLines ==
  [ input : InputImages,
    transform : Opt(TransformFiles),
    replace : BOOLEAN,
    inverse : BOOLEAN,
    reslice : Opt(TemplateImages),
    reference : Opt(ReferenceImages),
    flipx : BOOLEAN,
    interp : Opt(0..2),
    oversample : Opt(OversampleVectors),
    datatype : Opt(DataTypes) ]

\* ---------------------------------------------------------------- state
VARIABLES
  argv,        \* the command line of this run
  pc,          \* position in EXECUTE
  T,           \* Math::Matrix<float> T
  header_in,   \* Image::Header header_in
  header,      \* Image::Header header
  inverse,     \* bool inverse
  replace,     \* bool replace
  oversample,  \* std::vector<int> oversample
  interp,      \* int interp
  image_out,   \* the output image created by argument[1].get_image
  voxel_in,    \* the header Image::Voxel<float> in was opened on
  engine,      \* the call made to reslice or copy_with_progress
  error        \* the exception that ended the run

vars == << argv, pc, T, header_in, header, inverse, replace, oversample, interp,
           image_out, voxel_in, engine, error >>

\* a header not yet constructed
NoHeader ==
  [name |-> "", dim |-> << >>, vox |-> << >>, transform |-> Unset,
   datatype |-> "", comments |-> << >>]

\* Image::Header (image): the header fields of an image
HeaderOf(img) ==
  [name |-> img.name, dim |-> img.dim, vox |-> img.vox,
   transform |-> img.transform, datatype |-> img.datatype,
   comments |-> img.comments]

NoImage == [exists |-> FALSE, header |-> NoHeader, data |-> << >>]

NoCall ==
  [op |-> "none", in_transform |-> Unset, operation |-> Unset,
   out_transform |-> Unset, oversample |-> << >>, interp |-> 0 - 1]

Init ==
  /\ argv \in CommandLines
  /\ pc = "transform"
  /\ T = Unset
  /\ header_in = NoHeader
  /\ header = NoHeader
  /\ inverse = FALSE
  /\ replace = FALSE
  /\ oversample = << >>
  /\ interp = 1
  /\ image_out = NoImage
  /\ voxel_in = NoHeader
  /\ engine = NoCall
  /\ error = "none"

\* throw Exception (...): the run ends with nothing else changed
Throw(e) ==
  /\ pc' = "failed"
  /\ error' = e

\* lines 114-119: load the transform file and check its shape
LoadTransform ==
  /\ pc = "transform"
  /\ IF Len(argv.transform) > 0
     THEN LET M == argv.transform[1]
          IN  /\ T' = M
              /\ IF rows(M) # 4 \/ columns(M) # 4
                 THEN Throw("transform_not_4x4")
                 ELSE pc' = "header" /\ UNCHANGED error
     ELSE pc' = "header" /\ UNCHANGED << T, error >>
  /\ UNCHANGED << argv, header_in, header, inverse, replace, oversample, interp,
                  image_out, voxel_in, engine >>

\* -datatype: header.datatype().parse (...)
parse_datatype(h, opt) ==
  IF Len(opt) > 0 THEN [h EXCEPT !.datatype = opt[1]] ELSE h

\* lines 122-129: open the input header, copy it, read -datatype, -inverse
\* and -replace
OpenInput ==
  /\ pc = "header"
  /\ header_in' = HeaderOf(argv.input)
  /\ header' = parse_datatype(HeaderOf(argv.input), argv.datatype)
  /\ inverse' = argv.inverse
  /\ replace' = argv.replace
  /\ pc' = "inverse"
  /\ UNCHANGED << argv, T, oversample, interp, image_out, voxel_in, engine, error >>

\* lines 131-137: -inverse
ApplyInverse ==
  /\ pc = "inverse"
  /\ IF inverse
     THEN IF ~is_set(T)
          THEN Throw("no_transform_inverse") /\ UNCHANGED T
          ELSE IF LU_singular(T)
               THEN Throw("singular_matrix") /\ UNCHANGED T
               ELSE T' = LU_inv(T) /\ pc' = "reference" /\ UNCHANGED error
     ELSE pc' = "reference" /\ UNCHANGED << T, error >>
  /\ UNCHANGED << argv, header_in, header, inverse, replace, oversample, interp,
                  image_out, voxel_in, engine >>

\* R.identity(); R(0,0) = -1.0; R(0,3) = (h.dim(0)-1) * h.vox(0)
x_flip(h) ==
  [identity EXCEPT ![1] = << 0 - 1, 0, 0, (h.dim[1] - 1) * h.vox[1] >>]

\* lines 147-161 with the swap made on the wrong side of the flag
flip_correct_swap_reversed(Tm, inv, ref_header, h) ==
  LET R_ref  == IF inv THEN x_flip(ref_header) ELSE x_flip(h)
      R_orig == IF inv THEN x_flip(h) ELSE x_flip(ref_header)
  IN  mult(R_ref, mult(Tm, R_orig))

\* lines 147-161 without the swap of line 157
flip_correct_no_swap(Tm, inv, ref_header, h) ==
  mult(x_flip(ref_header), mult(Tm, x_flip(h)))

\* lines 147-161: the x-flip correction of T
flip_correct(Tm, inv, ref_header, h) ==
  LET R_ref  == IF inv THEN x_flip(h) ELSE x_flip(ref_header)
      R_orig == IF inv THEN x_flip(ref_header) ELSE x_flip(h)
      T_tmp  == mult(Tm, R_orig)
  IN  mult(R_ref, T_tmp)

\* lines 139-162: -reference needs a transform; -flipx corrects it
FlipX ==
  /\ pc = "reference"
  /\ IF Len(argv.reference) > 0
     THEN IF ~is_set(T)
          THEN Throw("no_transform_reference") /\ UNCHANGED T
          ELSE /\ T' = IF argv.flipx
                       THEN flip_correct(T, inverse, HeaderOf(argv.reference[1]), header)
                       ELSE T
               /\ pc' = "ref_mult"
               /\ UNCHANGED error
     ELSE pc' = "replace" /\ UNCHANGED << T, error >>
  /\ UNCHANGED << argv, header_in, header, inverse, replace, oversample, interp,
                  image_out, voxel_in, engine >>

\* lines 164-166 with the operands exchanged
to_scanner_space_reversed(Tm, ref_header) == mult(Tm, ref_header.transform)

\* lines 164-166: T = ref_header.transform() T
to_scanner_space(Tm, ref_header) == mult(ref_header.transform, Tm)

\* lines 164-167: compose with the reference transform, force replace
ApplyReference ==
  /\ pc = "ref_mult"
  /\ T' = to_scanner_space(T, HeaderOf(argv.reference[1]))
  /\ replace' = TRUE
  /\ pc' = "replace"
  /\ UNCHANGED << argv, header_in, header, inverse, oversample, interp,
                  image_out, voxel_in, engine, error >>

\* lines 172-174 without the throw
CheckReplaceSilent ==
  /\ pc = "replace"
  /\ pc' = "output"
  /\ UNCHANGED << argv, T, header_in, header, inverse, replace, oversample, interp,
                  image_out, voxel_in, engine, error >>

\* lines 172-174: -replace needs a transform
CheckReplace ==
  /\ pc = "replace"
  /\ IF replace /\ ~is_set(T)
     THEN Throw("no_transform_replace")
     ELSE pc' = "output" /\ UNCHANGED error
  /\ UNCHANGED << argv, T, header_in, header, inverse, replace, oversample, interp,
                  image_out, voxel_in, engine >>

\* lines 181-188 without the assignment of line 187
reslice_header_keeps_transform(h, template_header) ==
  [h EXCEPT !.dim[1] = template_header.dim[1],
            !.dim[2] = template_header.dim[2],
            !.dim[3] = template_header.dim[3],
            !.vox[1] = template_header.vox[1],
            !.vox[2] = template_header.vox[2],
            !.vox[3] = template_header.vox[3],
            !.comments = Append(h.comments,
               "resliced to reference image \"" \o template_header.name \o "\"")]

\* lines 181-188: axes 0, 1 and 2 of the output header take the template's
\* dim and vox, and the header takes the template's transform; any further
\* axis of the header is left as it is
reslice_header(h, template_header) ==
  [h EXCEPT !.dim[1] = template_header.dim[1],
            !.dim[2] = template_header.dim[2],
            !.dim[3] = template_header.dim[3],
            !.vox[1] = template_header.vox[1],
            !.vox[2] = template_header.vox[2],
            !.vox[3] = template_header.vox[3],
            !.transform = template_header.transform,
            !.comments = Append(h.comments,
               "resliced to reference image \"" \o template_header.name \o "\"")]

\* lines 198-200 accepting a factor of zero
oversample_error_allows_zero(v) ==
  IF Len(v) # 3 THEN "oversample_size"
  ELSE IF v[1] < 0 \/ v[2] < 0 \/ v[3] < 0 THEN "oversample_value"
  ELSE "none"

\* lines 198-200: the checks on the parsed -oversample vector
oversample_error(v) ==
  IF Len(v) # 3 THEN "oversample_size"
  ELSE IF v[1] < 1 \/ v[2] < 1 \/ v[3] < 1 THEN "oversample_value"
  ELSE "none"

\* lines 203-206 without the clear of line 205
replace_input_transform_keeps_T(h_in, Tm, rep) ==
  IF rep
  THEN [header_in |-> [h_in EXCEPT !.transform = Tm], T |-> h_in.transform]
  ELSE [header_in |-> h_in, T |-> Tm]

\* lines 203-206 with line 203 testing T.is_set() in place of replace
replace_input_transform_always(h_in, Tm, rep) ==
  IF is_set(Tm)
  THEN [header_in |-> [h_in EXCEPT !.transform = Tm], T |-> Unset]
  ELSE [header_in |-> h_in, T |-> Tm]

\* lines 203-206: with replace, T becomes the input header's transform and
\* is cleared
replace_input_transform(h_in, Tm, rep) ==
  IF rep
  THEN [header_in |-> [h_in EXCEPT !.transform = Tm], T |-> Unset]
  ELSE [header_in |-> h_in, T |-> Tm]

\* DataSet::Interp::reslice<Interp> (out, in, T, oversample): the operands
\* the engine receives (the values it writes are computed outside this file)
reslice_call(h_out, h_in, Tm, os, method) ==
  [op |-> "reslice", in_transform |-> h_in.transform, operation |-> Tm,
   out_transform |-> h_out.transform, oversample |-> os, interp |-> method]

\* DataSet::Interp::reslice fails when the input image's scanner transform
\* cannot be inverted: the engine forms invert(inputScannerTransform) once
\* per run, and inversion of a singular matrix is a failure
reslice_fails(call) == LU_singular(call.in_transform)

\* lines 178-220: the reslice branch; the engine call of lines 213-218 ends
\* the run, in success or in the engine's failure
Reslice ==
  /\ pc = "output"
  /\ Len(argv.reslice) > 0
  /\ LET template_header == HeaderOf(argv.reslice[1])
         h   == reslice_header(header, template_header)
         m   == IF Len(argv.interp) > 0 THEN argv.interp[1] ELSE 1
         os  == IF Len(argv.oversample) > 0 THEN argv.oversample[1] ELSE << >>
         e   == IF Len(argv.oversample) > 0 THEN oversample_error(os) ELSE "none"
         sw  == replace_input_transform(header_in, T, replace)
     IN  /\ header' = h
         /\ interp' = m
         /\ oversample' = os
         /\ IF e # "none"
            THEN /\ Throw(e)
                 /\ UNCHANGED << T, header_in, image_out, voxel_in, engine >>
            ELSE /\ header_in' = sw.header_in
                 /\ T' = sw.T
                 /\ image_out' = [exists |-> TRUE, header |-> h, data |-> << >>]
                 /\ voxel_in' = sw.header_in
                 /\ engine' = reslice_call(h, sw.header_in, sw.T, os, m)
                 /\ IF reslice_fails(reslice_call(h, sw.header_in, sw.T, os, m))
                    THEN Throw("singular_matrix")
                    ELSE pc' = "done" /\ UNCHANGED error
  /\ UNCHANGED << argv, inverse, replace >>

\* lines 223-231 with the operands of line 229 exchanged
copy_header_reversed(h, Tm, rep) ==
  IF is_set(Tm)
  THEN [h EXCEPT !.comments = Append(h.comments, "transform modified"),
                 !.transform = IF rep THEN Tm ELSE mult(h.transform, Tm)]
  ELSE h

\* lines 223-231: the header of a straight copy
copy_header(h, Tm, rep) ==
  IF is_set(Tm)
  THEN [h EXCEPT !.comments = Append(h.comments, "transform modified"),
                 !.transform = IF rep THEN Tm ELSE mult(Tm, h.transform)]
  ELSE h

\* DataSet::copy_with_progress (out, in): every voxel value of in, in order
copy_with_progress(vals) == SubSeq(vals, 1, Len(vals))

\* lines 221-237: the straight copy branch
DirectCopy ==
  /\ pc = "output"
  /\ Len(argv.reslice) = 0
  /\ LET h == copy_header(header, T, replace)
     IN  /\ header' = h
         /\ T' = IF is_set(T) /\ replace THEN header.transform ELSE T
         /\ image_out' = [exists |-> TRUE, header |-> h,
                          data |-> copy_with_progress(argv.input.data)]
         /\ voxel_in' = header_in
         /\ engine' = [NoCall EXCEPT !.op = "copy",
                                     !.in_transform = header_in.transform,
                                     !.out_transform = h.transform]
         /\ pc' = "done"
  /\ UNCHANGED << argv, header_in, inverse, replace, oversample, interp, error >>

Next ==
  \/ LoadTransform
  \/ OpenInput
  \/ ApplyInverse
  \/ FlipX
  \/ ApplyReference
  \/ CheckReplace
  \/ Reslice
  \/ DirectCopy

Spec == Init /\ [][Next]_vars

\* ---------------------------------------------------------- vocabulary
Given(o) == Len(o) > 0

Terminal == pc \in {"done", "failed"}

MissingTransformErrors ==
  {"no_transform_inverse", "no_transform_reference", "no_transform_replace"}

OversampleErrors == {"oversample_size", "oversample_value"}

ValidationErrors ==
  {"transform_not_4x4"} \cup MissingTransformErrors \cup OversampleErrors

\* an -oversample vector that is not 3 values all >= 1
BadOversample(v) == Len(v) # 3 \/ \E i \in 1..Len(v) : v[i] < 1

\* identity with (0,0) = -1 and (0,3) = (d - 1) * v
MirrorX(d, v) ==
  << << 0 - 1, 0, 0, (d - 1) * v >>, <<0, 1, 0, 0>>, <<0, 0, 1, 0>>, <<0, 0, 0, 1>> >>

\* the matrix of the -transform file
GivenT == argv.transform[1]

\* the transform after the -inverse step
AfterInverse == IF argv.inverse THEN LU_inv(GivenT) ELSE GivenT

\* the transform after the flip step, from the input's and the reference's
\* own geometry
AfterFlip ==
  IF Given(argv.reference) /\ argv.flipx
  THEN LET R_ref  == MirrorX(argv.reference[1].dim[1], argv.reference[1].vox[1])
           R_orig == MirrorX(argv.input.dim[1], argv.input.vox[1])
       IN  IF argv.inverse
           THEN mult(R_orig, mult(AfterInverse, R_ref))
           ELSE mult(R_ref, mult(AfterInverse, R_orig))
  ELSE AfterInverse

\* the net transform T_final
T_final ==
  IF Given(argv.reference)
  THEN mult(argv.reference[1].transform, AfterFlip)
  ELSE AfterFlip

\* ---------------------------------------------------------------- claims

\* C1: a run that ends in a validation or numerical failure has created no
\* output image, opened no voxels and called neither reslice nor
\* copy_with_progress; an output image exists only in a run that succeeds.
C1_NoOutputOnFailure ==
  /\ pc = "failed" =>
       /\ error \in ValidationErrors \cup {"singular_matrix"}
       /\ ~image_out.exists
       /\ voxel_in = NoHeader
       /\ engine.op = "none"
  /\ image_out.exists => pc = "done" /\ error = "none"

\* C2 as stated: for every combination of the other options, with or
\* without -reslice, a run given a bad -oversample vector ends in failure
\* with no output, and a good vector reaches the engine unchanged.
C2_Original ==
  (Given(argv.oversample) /\ Terminal) =>
     IF BadOversample(argv.oversample[1])
     THEN pc = "failed" /\ ~image_out.exists
     ELSE /\ error \notin OversampleErrors
          /\ engine.op = "reslice" => engine.oversample = argv.oversample[1]

\* C2 amended: in a run with -reslice a bad -oversample vector ends the run
\* in failure with no output, with the oversample ValidationError unless an
\* earlier check failed first; in a run without -reslice the vector is
\* never parsed and raises no error; a vector of 3 values all >= 1 is
\* accepted and handed unchanged to the reslicing engine.
C2_OversampleCheckedWhenReslicing ==
  (Given(argv.oversample) /\ Terminal) =>
     LET v == argv.oversample[1]
     IN  IF ~Given(argv.reslice)
         THEN /\ error \notin OversampleErrors
              /\ oversample = << >>
              /\ error = "none" => pc = "done" /\ image_out.exists
         ELSE IF BadOversample(v)
         THEN /\ pc = "failed"
              /\ ~image_out.exists
              /\ error \in ValidationErrors \cup {"singular_matrix"}
              /\ error \in OversampleErrors =>
                   error = IF Len(v) # 3 THEN "oversample_size" ELSE "oversample_value"
         ELSE /\ error \notin OversampleErrors
              /\ pc = "done" => engine.op = "reslice" /\ engine.oversample = v

\* C2 witness: a reslice run rejected for the length of its vector
C2_Witness ==
  pc = "failed" /\ error = "oversample_size" /\ Given(argv.reslice)

\* C3: with no -transform, a run asking for -inverse, -reference or
\* -replace never reaches the output stage and fails with a
\* missing-transform ValidationError; with none of the three asked for, no
\* missing-transform error is raised.
C3_MissingTransform ==
  ~Given(argv.transform) =>
     IF argv.inverse \/ Given(argv.reference) \/ argv.replace
     THEN /\ pc \notin {"output", "done"}
          /\ pc = "failed" => error \in MissingTransformErrors
     ELSE error \notin MissingTransformErrors

\* C3 witness: -replace alone, without a transform, was rejected
C3_Witness ==
  /\ pc = "failed" /\ error = "no_transform_replace"
  /\ ~argv.inverse /\ ~Given(argv.reference) /\ argv.replace

\* C4: a successful run without -reslice writes T_final as the output
\* header transform when replace is true, T_final times the input header's
\* transform when it is false, the input header's transform when no
\* transform was supplied; voxel values, dimensions and voxel sizes are
\* those of the input.
C4_DirectCopy ==
  (pc = "done" /\ ~Given(argv.reslice)) =>
     /\ image_out.header.transform =
          IF Given(argv.transform)
          THEN IF replace THEN T_final ELSE mult(T_final, argv.input.transform)
          ELSE argv.input.transform
     /\ image_out.data = argv.input.data
     /\ image_out.header.dim = argv.input.dim
     /\ image_out.header.vox = argv.input.vox
     /\ engine.op = "copy"

\* C4 witness: a straight copy that composed an inverted transform with the
\* header's own
C4_Witness ==
  /\ pc = "done" /\ ~Given(argv.reslice) /\ Given(argv.transform)
  /\ ~replace /\ argv.inverse

\* C5: with -reference and a transform, the net transform is the reference
\* scanner transform times the flip-corrected transform and replace is
\* forced to true, so a run without -reslice writes exactly that product
\* as the output header transform.
C5_ReferenceForcesReplace ==
  (Given(argv.reference) /\ Given(argv.transform)) =>
     /\ pc \in {"replace", "output", "done"} => replace
     /\ pc \in {"replace", "output"} =>
          T = mult(argv.reference[1].transform, AfterFlip)
     /\ (pc = "done" /\ ~Given(argv.reslice)) =>
          image_out.header.transform = mult(argv.reference[1].transform, AfterFlip)

\* C5 witness: a straight copy with -reference and without -replace
C5_Witness ==
  /\ pc = "done" /\ ~Given(argv.reslice) /\ Given(argv.reference)
  /\ ~argv.replace

\* C6: a successful run with -reslice gives the output image the
\* template's three spatial dimensions, three voxel sizes and scanner
\* transform, whatever the other options are (axes beyond the third keep
\* the input's dimension and voxel size).
C6_OutputGridIsTemplate ==
  (pc = "done" /\ Given(argv.reslice)) =>
     /\ image_out.exists
     /\ SubSeq(image_out.header.dim, 1, 3) = SubSeq(argv.reslice[1].dim, 1, 3)
     /\ SubSeq(image_out.header.vox, 1, 3) = SubSeq(argv.reslice[1].vox, 1, 3)
     /\ image_out.header.transform = argv.reslice[1].transform
     /\ Len(image_out.header.dim) = Len(argv.input.dim)
     /\ \A i \in 4..Len(argv.input.dim) :
           /\ image_out.header.dim[i] = argv.input.dim[i]
           /\ image_out.header.vox[i] = argv.input.vox[i]

\* C6 witness: a reslice with a reference transform, whose T_final differs
\* from the template's transform, input and template differing in their
\* number of axes
C6_Witness ==
  /\ pc = "done" /\ Given(argv.reslice) /\ Given(argv.reference)
  /\ T_final # argv.reslice[1].transform
  /\ Len(argv.input.dim) # Len(argv.reslice[1].dim)

\* C7: the x-flip correction is made exactly when -reference and -flipx
\* are both given: the transform entering the multiplication by the
\* reference transform is R_ref T R_orig without -inverse and
\* R_orig T R_ref with it, R_orig built from the input's geometry; without
\* -reference the transform is the same with and without -flipx.
C7_FlipCorrection ==
  /\ pc = "ref_mult" => T = AfterFlip
  /\ (pc = "replace" /\ ~Given(argv.reference) /\ Given(argv.transform)) =>
        T = AfterInverse

\* C7 witness: an inverted transform flip-corrected in a reslice run
C7_Witness ==
  /\ pc = "ref_mult" /\ argv.flipx /\ argv.inverse /\ Given(argv.reslice)
  /\ T # AfterInverse

\* the flip-corrected transform the same command line gives with -inverse
\* toggled
Counterpart ==
  flip_correct(IF argv.inverse THEN GivenT ELSE LU_inv(GivenT),
               ~argv.inverse, HeaderOf(argv.reference[1]), HeaderOf(argv.input))

\* C8: for an invertible transform file, the flip-corrected transform of
\* a run with -reference -flipx and the one of the same run with -inverse
\* toggled are inverses of each other.
C8_FlipRoundTrip ==
  (pc = "ref_mult" /\ argv.flipx /\ ~LU_singular(GivenT)) =>
     /\ mult(Counterpart, T) = identity
     /\ mult(T, Counterpart) = identity

\* C8 witness: a flip-corrected transform of a run without -inverse
C8_Witness ==
  /\ pc = "ref_mult" /\ argv.flipx /\ ~argv.inverse /\ ~LU_singular(GivenT)
  /\ T # GivenT

\* C9 as stated: in every reslice run with a transform, replace set or not,
\* the engine gets the input's original scanner transform, T_final and the
\* template's scanner transform.
C9_Original ==
  (pc = "done" /\ Given(argv.reslice) /\ Given(argv.transform)) =>
     /\ engine.op = "reslice"
     /\ engine.in_transform = argv.input.transform
     /\ engine.operation = T_final
     /\ engine.out_transform = argv.reslice[1].transform

\* C9 amended: in a reslice run with a transform and replace not set, the
\* engine gets the input's original scanner transform, T_final and the
\* template's scanner transform; with replace set (by -replace or by
\* -reference) it gets an input whose scanner transform is T_final, an
\* unset transform and the template's scanner transform. This holds of
\* every call to the engine, whether it then succeeds or fails.
C9_EngineOperands ==
  /\ (pc = "done" /\ Given(argv.reslice)) => engine.op = "reslice"
  /\ (engine.op = "reslice" /\ Given(argv.transform)) =>
       /\ engine.out_transform = argv.reslice[1].transform
       /\ IF replace
          THEN engine.in_transform = T_final /\ engine.operation = Unset
          ELSE engine.in_transform = argv.input.transform /\ engine.operation = T_final

\* C9 witness: a reslice with -replace and no -reference
C9_Witness ==
  /\ pc = "done" /\ Given(argv.reslice) /\ argv.replace
  /\ ~Given(argv.reference)

\* C10 as stated: in every run the input header's dimensions, voxel sizes
\* and scanner transform, when the input voxels are opened and at the end
\* of the run, are those loaded from the input image.
C10_Original ==
  /\ voxel_in # NoHeader => voxel_in = HeaderOf(argv.input)
  /\ (Terminal /\ header_in # NoHeader) => header_in = HeaderOf(argv.input)

\* C10 amended: the input header's dimensions and voxel sizes are always
\* those loaded from the input image; its scanner transform is the loaded
\* one except in a reslice run with replace set that has passed the
\* -oversample check, where it is T_final from then on: when the input
\* voxels are opened and at the end of the run, whether the reslice
\* succeeds or fails.
C10_InputHeader ==
  LET expected ==
        IF image_out.exists /\ Given(argv.reslice) /\ replace
        THEN [HeaderOf(argv.input) EXCEPT !.transform = T_final]
        ELSE HeaderOf(argv.input)
  IN  /\ header_in # NoHeader => header_in = expected
      /\ voxel_in # NoHeader => voxel_in = expected

\* C10 witness: the input voxels opened on a header carrying T_final
C10_Witness ==
  /\ pc = "done" /\ Given(argv.reslice) /\ replace
  /\ voxel_in.transform # argv.input.transform
  /\ voxel_in.dim = argv.input.dim
=============================================================================
